---- MODULE Spec2Model ----
(***************************************************************************)
(* Thrustmaster T500RS force-feedback driver: the effect state table, the  *)
(* entry points t500rs_upload / t500rs_play and the hrtimer callback       *)
(* t500rs_timer with its pass t500rs_timer_helper over the table.          *)
(*                                                                         *)
(* The entry points mutate a slot inside spin_lock_irqsave; the timer      *)
(* callback takes no lock, so an entry point may run between any two       *)
(* stages of a pass.  A pass is therefore modelled stage by stage (pc,     *)
(* effect_id), each entry point as one atomic step.                        *)
(***************************************************************************)
EXTENDS Integers, Sequences, FiniteSets, TLC

\* ------------------------------------------------------------------ bounds
\* Number of slots of the state table that are modelled (the driver has
\* T500RS_MAX_EFFECTS of them, all handled by the same loop body).
NumSlots == 2
\* Largest value of the millisecond clock JIFFIES2MS(jiffies).
MaxTime == 2
\* Largest repeat value passed to t500rs_play.
MaxCount == 2
\* Number of entry-point calls (t500rs_upload, t500rs_play) in a behaviour.
MaxCalls == 3
\* Largest number of constituents of a combined effect (the macro
\* T500RS_MAX_COMBINED_EFFECTS, which no source file defines).
MaxCombined == 3

\* --------------------------------------------------------------- constants
FF_EFFECT_QUEUE_UPLOAD == 0
FF_EFFECT_QUEUE_START == 1
FF_EFFECT_QUEUE_STOP == 2
FF_EFFECT_PLAYING == 3
FF_EFFECT_QUEUE_UPDATE == 4

EINVAL == 22
ENOMEM == 12

\* Protocol commands and effect-type codes of hid-tmt500rs.h.
T500RS_CMD_UPLOAD_EFFECT == 1
T500RS_CMD_SET_ENVELOPE == 2
T500RS_CMD_SET_CONSTANT == 3
T500RS_CMD_SET_PERIODIC == 4
T500RS_CMD_SET_CONDITION == 5
T500RS_EFFECT_CONSTANT == 0
T500RS_EFFECT_SPRING == 64
T500RS_EFFECT_INERTIA == 65
T500RS_EFFECT_SQUARE == 32
T500RS_EFFECT_TRIANGLE == 33
T500RS_EFFECT_SINE == 34
T500RS_EFFECT_SAWTOOTH_UP == 35
T500RS_EFFECT_SAWTOOTH_DOWN == 36
T500RS_EFFECT_RAMP == 36
T500RS_EFFECT_FRICTION_2 == 12
T500RS_EFFECT_DAMPER_2 == 13
T500RS_EFFECT_COMBINE == 15

\* Macros the driver uses and no source file defines: their values are
\* unknown, so the bytes they fill are kept symbolic.
T500RS_CMD_SET_RAMP == "T500RS_CMD_SET_RAMP"
T500RS_CMD_PLAY == "T500RS_CMD_PLAY"
T500RS_CMD_STOP == "T500RS_CMD_STOP"
T500RS_CMD_UPDATE == "T500RS_CMD_UPDATE"
T500RS_WEIGHT_UPDATE == "T500RS_WEIGHT_UPDATE"

\* The numeric value of an effect type or waveform tag (<linux/input.h>).
FF_TypeValue(type) ==
    CASE type = "FF_RUMBLE" -> 80
      [] type = "FF_PERIODIC" -> 81
      [] type = "FF_CONSTANT" -> 82
      [] type = "FF_SPRING" -> 83
      [] type = "FF_FRICTION" -> 84
      [] type = "FF_DAMPER" -> 85
      [] type = "FF_INERTIA" -> 86
      [] type = "FF_RAMP" -> 87
      [] type = "FF_SQUARE" -> 88
      [] type = "FF_TRIANGLE" -> 89
      [] type = "FF_SINE" -> 90
      [] type = "FF_SAW_UP" -> 91
      [] type = "FF_SAW_DOWN" -> 92
      [] OTHER -> 0

\* Assignment of an integer to a u8.
Byte(x) == x % 256

Slots == 0 .. (NumSlots - 1)
Times == 0 .. MaxTime

\* ------------------------------------------------------------- descriptors
\* struct ff_effect, reduced to the fields the driver reads.  The fields of
\* the union u that the arguments do not name are zero.
Effect(type, length, period, attack_length, fade_length) ==
    [type |-> type, length |-> length, period |-> period,
     attack_length |-> attack_length, fade_length |-> fade_length,
     waveform |-> "NONE", level |-> 0, start_level |-> 0, end_level |-> 0,
     right_coeff |-> 0, left_coeff |-> 0, right_saturation |-> 0,
     left_saturation |-> 0, deadband |-> 0, center |-> 0]

\* The table is kzalloc'ed: every field of a fresh slot is zero.
ZeroEffect == Effect("NONE", 0, 0, 0, 0)

\* The effect types t500rs_upload_effect has a case for.
SupportedTypes ==
    {"FF_CONSTANT", "FF_RAMP", "FF_SPRING", "FF_DAMPER", "FF_FRICTION",
     "FF_INERTIA", "FF_PERIODIC"}

\* Descriptors handed to t500rs_upload: two constant forces (one with a
\* duration and an envelope, one without), a periodic effect with and
\* without a period, and one of a type the driver has no case for.
UploadInputs ==
    { Effect("FF_CONSTANT", 1, 0, 1, 0),
      Effect("FF_CONSTANT", 0, 0, 0, 0),
      Effect("FF_PERIODIC", 0, 0, 0, 0),
      Effect("FF_PERIODIC", 0, 1, 0, 0),
      Effect("FF_RUMBLE", 0, 0, 0, 0) }

\* Repeat values handed to t500rs_play.
PlayValues == (-1) .. MaxCount

VARIABLES
    states,       \* t500rs->states[]: effect, old, combined, flags, start_time, count
    hrtimer,      \* "idle" | "armed" (enqueued) | "running" (callback executing)
    now,          \* JIFFIES2MS(jiffies)
    pc,           \* position of the running pass in the loop body
    effect_id,    \* loop variable of t500rs_timer_helper
    jiffies_now,  \* local of t500rs_timer_helper
    max_count,    \* local of t500rs_timer_helper
    helper_ret,   \* value t500rs_timer_helper returns to t500rs_timer
    sent,         \* sends made for the slot the pass is working on
    retval,       \* value returned by the most recent entry-point call
    rearmed,      \* hrtimer_start was called on a timer that was still active
    calls,        \* entry-point calls made so far
    cycles,        \* per slot: repeats owed when it was found playing, expiries since
    device,       \* t500rs_get_device(hdev) finds the device entry
    word,         \* flags word a non-atomic bit operation of the pass has loaded
    entry,        \* rest of the device entry: range, firmware answer, what init set up
    halted        \* observer: slots whose stop the pass consumed, no positive play since

vars == <<states, hrtimer, now, pc, effect_id, jiffies_now, max_count,
          helper_ret, sent, retval, rearmed, calls, cycles, device, word, entry, halted>>

tick_locals == <<effect_id, jiffies_now, max_count, helper_ret>>

test_bit(bit, s) == bit \in states[s].flags

\* ----------------------------------------------------------- transport
\* One call of t500rs_send_effect(t500rs, state, command_id, params, size):
\* the first `size` bytes of the buffer `params` go out.  `ok` is cleared on
\* the call whose kzalloc fails: nothing reaches the wheel.
Cmd(id, command_id, params, size) ==
    [id |-> id, cmd |-> command_id, size |-> size, ok |-> TRUE,
     alloc |-> TRUE, ret |-> 0, params |-> SubSeq(params, 1, size)]

\* Variant: a missing device entry is reported as a failed allocation.
SendResult_NoDeviceAsNoMemory(alloc, dev) ==
    IF ~alloc \/ ~dev THEN -ENOMEM ELSE 0

\* What one call of t500rs_send_effect returns: -ENOMEM when its kzalloc
\* fails, else what t500rs_send_int returns, -1 when t500rs_get_device finds
\* no device entry and 0 otherwise.
SendResult(alloc, dev) ==
    IF ~alloc THEN -ENOMEM ELSE IF ~dev THEN -1 ELSE 0

\* A run of sends, each of which returns at once when it fails: `fails` is
\* the set of ordinals (counted from base + 1) of the sends whose kzalloc
\* fails.  Result: the sends attempted and the value returned.
SendAll(cmds, fails, base) ==
    LET bad == { i \in 1 .. Len(cmds) :
                   SendResult((base + i) \notin fails, device) # 0 }
    IN  IF bad = {}
        THEN [sent |-> cmds, ret |-> 0]
        ELSE LET first == CHOOSE i \in bad : \A j \in bad : i <= j
                 r == SendResult((base + first) \notin fails, device)
             IN  [sent |-> [i \in 1 .. first |->
                               IF i # first THEN cmds[i]
                               ELSE [cmds[i] EXCEPT
                                       !.ok = FALSE,
                                       !.alloc = (base + first) \notin fails,
                                       !.ret = r]],
                  ret |-> r]

\* ------------------------------------------------------- upload pipeline
Then(a, b) == [sent |-> a.sent \o b.sent, ret |-> b.ret]

\* The envelope buffer every encoder fills: all parameters zero.
EnvelopeParams == <<T500RS_CMD_SET_ENVELOPE, 28, 0, 0, 0, 0, 0, 0, 0>>

\* The buffer of the upload command, with the effect-type code in params[2].
UploadParams(code) ==
    <<T500RS_CMD_UPLOAD_EFFECT, 0, code, 64, 23, 37, 0, 255, 255, 14, 0, 28, 0>>

\* The constant encoder without the level.
t500rs_upload_constant_NoLevel(id, effect, fails, base) ==
    SendAll(<<Cmd(id, "T500RS_CMD_SET_ENVELOPE", EnvelopeParams, 9),
              Cmd(id, "T500RS_CMD_SET_CONSTANT",
                  <<T500RS_CMD_SET_CONSTANT, 14, 0, 0>>, 4),
              Cmd(id, "T500RS_CMD_UPLOAD_EFFECT",
                  UploadParams(T500RS_EFFECT_CONSTANT), 13)>>, fails, base)

t500rs_upload_constant(id, effect, fails, base) ==
    SendAll(<<Cmd(id, "T500RS_CMD_SET_ENVELOPE", EnvelopeParams, 9),
              Cmd(id, "T500RS_CMD_SET_CONSTANT",
                  <<T500RS_CMD_SET_CONSTANT, 14, 0, Byte(effect.level)>>, 4),
              Cmd(id, "T500RS_CMD_UPLOAD_EFFECT",
                  UploadParams(T500RS_EFFECT_CONSTANT), 13)>>, fails, base)

t500rs_upload_ramp(id, effect, fails, base) ==
    SendAll(<<Cmd(id, "T500RS_CMD_SET_ENVELOPE", EnvelopeParams, 9),
              Cmd(id, "T500RS_CMD_SET_RAMP",
                  <<T500RS_CMD_SET_RAMP, 14, 0, Byte(effect.start_level),
                    Byte(effect.end_level)>>, 5),
              Cmd(id, "T500RS_CMD_UPLOAD_EFFECT",
                  UploadParams(T500RS_EFFECT_RAMP), 13)>>, fails, base)

\* The switch is on state->effect.type; only the five waveform tags pass it.
t500rs_upload_periodic(id, type, fails, base) ==
    IF type \in {"FF_SINE", "FF_SQUARE", "FF_TRIANGLE", "FF_SAW_UP", "FF_SAW_DOWN"}
    THEN LET waveform ==
                 CASE type = "FF_SINE" -> T500RS_EFFECT_SINE
                   [] type = "FF_SQUARE" -> T500RS_EFFECT_SQUARE
                   [] type = "FF_TRIANGLE" -> T500RS_EFFECT_TRIANGLE
                   [] type = "FF_SAW_UP" -> T500RS_EFFECT_SAWTOOTH_UP
                   [] type = "FF_SAW_DOWN" -> T500RS_EFFECT_SAWTOOTH_DOWN
         IN  SendAll(<<Cmd(id, "T500RS_CMD_SET_ENVELOPE", EnvelopeParams, 9),
                       Cmd(id, "T500RS_CMD_SET_PERIODIC",
                           <<T500RS_CMD_SET_PERIODIC, 14, 0, 0, 0, 0, 232, 3>>, 8),
                       Cmd(id, "T500RS_CMD_UPLOAD_EFFECT",
                           UploadParams(waveform), 13)>>, fails, base)
    ELSE [sent |-> <<>>, ret |-> -EINVAL]

\* The condition command comes first here, and its bytes are fixed.
t500rs_upload_condition(id, effect_type, fails, base) ==
    SendAll(<<Cmd(id, "T500RS_CMD_SET_CONDITION",
                  <<T500RS_CMD_SET_CONDITION, 14, 0, 100, 100, 0, 0, 0, 0,
                    100, 100>>, 11),
              Cmd(id, "T500RS_CMD_SET_ENVELOPE", EnvelopeParams, 9),
              Cmd(id, "T500RS_CMD_UPLOAD_EFFECT",
                  UploadParams(effect_type), 13)>>, fails, base)

t500rs_upload_condition_extended(id, effect, effect_type, fails, base) ==
    LET velocity_factor ==
            IF effect_type = T500RS_EFFECT_DAMPER_2 THEN 100
            ELSE IF effect_type = T500RS_EFFECT_FRICTION_2 THEN 50 ELSE 0
        acceleration_factor ==
            IF effect_type = T500RS_EFFECT_DAMPER_2 THEN 50 ELSE 0
        position_factor ==
            IF effect_type = T500RS_EFFECT_DAMPER_2 THEN 0
            ELSE IF effect_type = T500RS_EFFECT_FRICTION_2 THEN 100 ELSE 0
    IN  SendAll(<<Cmd(id, "T500RS_CMD_UPDATE",
                      <<effect_type, 0, 0, 0, 5, 14,
                        Byte(effect.right_coeff \div 256),
                        Byte(effect.left_coeff \div 256),
                        Byte(effect.right_saturation \div 512),
                        Byte(effect.left_saturation \div 512),
                        Byte(effect.deadband \div 512),
                        Byte(effect.center \div 512),
                        velocity_factor, acceleration_factor,
                        position_factor>>, 15)>>, fails, base)

\* strength and damping go out; the resistance the caller computed does not.
t500rs_upload_inertia(id, effect, fails, base) ==
    SendAll(<<Cmd(id, "T500RS_CMD_UPDATE",
                  <<T500RS_EFFECT_INERTIA, 0, 0, 0, 3, 14,
                    Byte(effect.right_coeff \div 256),
                    Byte(effect.left_coeff \div 256)>>, 8)>>, fails, base)

\* The upload command carries state->effect.type itself.
t500rs_upload_envelope(id, effect, fails, base) ==
    SendAll(<<Cmd(id, "T500RS_CMD_SET_ENVELOPE", EnvelopeParams, 9),
              Cmd(id, "T500RS_CMD_UPLOAD_EFFECT",
                  UploadParams(Byte(FF_TypeValue(effect.type))), 13)>>, fails, base)

\* Called by t500rs_upload_effect, defined nowhere in the sources: one send
\* that configures the duration.
t500rs_modify_duration(id, fails, base) ==
    SendAll(<<Cmd(id, "T500RS_CMD_MODIFY_DURATION", <<>>, 0)>>, fails, base)

\* The buffer t500rs_upload_combined fills for the record c: eight header
\* bytes, then three bytes per constituent.
CombinedParams(c) ==
    [k \in 1 .. (8 + MaxCombined * 3) |->
        LET idx == k - 1
            i == (idx - 8) \div 3
            r == (idx - 8) % 3
        IN  IF idx < 8
            THEN <<T500RS_EFFECT_COMBINE, 0, 0, 0, 5, 14, c.num_effects,
                   IF c.dynamic_weights THEN 1 ELSE 0>>[k]
            ELSE IF i >= c.num_effects THEN 0
            ELSE IF r = 0 THEN c.effect_ids[i]
            ELSE IF r = 1 THEN c.weights[i]
            ELSE IF c.dynamic_weights
                 THEN ((c.min_weights[i] \div 16) * 16)
                      + ((c.max_weights[i] \div 16) % 16)
                 ELSE 0]

\* `combined` is state->combined: <<>> for NULL, <<c>> for a record c.
\* The combined encoder sending three bytes per constituent always.
t500rs_upload_combined_ThreeEach(id, combined, fails, base) ==
    IF combined = <<>>
    THEN [sent |-> <<>>, ret |-> -EINVAL]
    ELSE LET c == combined[1]
         IN  IF c.num_effects = 0 \/ c.num_effects > MaxCombined
             THEN [sent |-> <<>>, ret |-> -EINVAL]
             ELSE SendAll(<<Cmd(id, "T500RS_CMD_UPDATE", CombinedParams(c),
                                8 + c.num_effects * 3)>>,
                          fails, base)

t500rs_upload_combined(id, combined, fails, base) ==
    IF combined = <<>>
    THEN [sent |-> <<>>, ret |-> -EINVAL]
    ELSE LET c == combined[1]
         IN  IF c.num_effects = 0 \/ c.num_effects > MaxCombined
             THEN [sent |-> <<>>, ret |-> -EINVAL]
             ELSE SendAll(<<Cmd(id, "T500RS_CMD_UPDATE", CombinedParams(c),
                                8 + c.num_effects
                                    * (IF c.dynamic_weights THEN 3 ELSE 2))>>,
                          fails, base)

\* Variant: the weight update also queues an upload of the slot.
t500rs_upload_weight_Queues(id, st, update, fails) ==
    [state |-> [st EXCEPT !.flags = @ \cup {FF_EFFECT_QUEUE_UPLOAD}],
     sent |-> <<>>, ret |-> -EINVAL]

\* Variant: the weight is sent and stored without the check against the
\* minimum and the maximum.
t500rs_upload_weight_NoClamp(id, st, update, fails) ==
    IF st.combined = <<>> \/ ~st.combined[1].dynamic_weights
    THEN [state |-> st, sent |-> <<>>, ret |-> -EINVAL]
    ELSE LET c == st.combined[1]
             hits == { i \in 0 .. (c.num_effects - 1) :
                         c.effect_ids[i] = update.effect_id }
         IN  IF hits = {}
             THEN [state |-> st, sent |-> <<>>, ret |-> -EINVAL]
             ELSE LET found == CHOOSE i \in hits : \A j \in hits : i <= j
                      r == SendAll(
                              <<Cmd(id, "T500RS_CMD_UPDATE",
                                    <<T500RS_WEIGHT_UPDATE, 0, 0, 0,
                                      update.effect_id, update.new_weight,
                                      0, 0>>, 8)>>, fails, 0)
                  IN  [state |-> [st EXCEPT !.combined[1].weights[found] =
                                     update.new_weight],
                       sent |-> r.sent, ret |-> r.ret]

\* t500rs_upload_weight for the slot record st: the slot afterwards, the
\* send attempted and the value returned.
t500rs_upload_weight(id, st, update, fails) ==
    IF st.combined = <<>> \/ ~st.combined[1].dynamic_weights
    THEN [state |-> st, sent |-> <<>>, ret |-> -EINVAL]
    ELSE LET c == st.combined[1]
             hits == { i \in 0 .. (c.num_effects - 1) :
                         c.effect_ids[i] = update.effect_id }
         IN  IF hits = {}
             THEN [state |-> st, sent |-> <<>>, ret |-> -EINVAL]
             ELSE LET found == CHOOSE i \in hits : \A j \in hits : i <= j
                  IN  IF \/ update.new_weight < c.min_weights[found]
                         \/ update.new_weight > c.max_weights[found]
                      THEN [state |-> st, sent |-> <<>>, ret |-> -EINVAL]
                      ELSE LET r == SendAll(
                                   <<Cmd(id, "T500RS_CMD_UPDATE",
                                         <<T500RS_WEIGHT_UPDATE, 0, 0, 0,
                                           update.effect_id, update.new_weight,
                                           IF update.smooth_transition
                                           THEN update.transition_steps ELSE 0,
                                           0>>, 8)>>, fails, 0)
                           IN  [state |-> [st EXCEPT
                                             !.combined[1].weights[found] =
                                                 update.new_weight],
                                sent |-> r.sent, ret |-> r.ret]

\* The switch of t500rs_upload_effect: `early` says the function returned
\* from inside the switch (return ret / return -EINVAL) instead of breaking.
UploadSwitch(id, effect, fails) ==
    LET withEnvelope(first) ==
            IF first.ret # 0
            THEN [r |-> first, early |-> TRUE]
            ELSE IF effect.attack_length # 0 \/ effect.fade_length # 0
                 THEN LET e == t500rs_upload_envelope(id, effect, fails,
                                                      Len(first.sent))
                      IN  [r |-> Then(first, e), early |-> e.ret # 0]
                 ELSE [r |-> first, early |-> FALSE]
        break(x) == [r |-> x, early |-> FALSE]
    IN  CASE effect.type = "FF_CONSTANT" ->
                withEnvelope(t500rs_upload_constant(id, effect, fails, 0))
          [] effect.type = "FF_RAMP" ->
                withEnvelope(t500rs_upload_ramp(id, effect, fails, 0))
          [] effect.type = "FF_SPRING" ->
                break(t500rs_upload_condition(id, T500RS_EFFECT_SPRING, fails, 0))
          [] effect.type = "FF_DAMPER" ->
                break(t500rs_upload_condition_extended(
                          id, effect, T500RS_EFFECT_DAMPER_2, fails, 0))
          [] effect.type = "FF_FRICTION" ->
                break(t500rs_upload_condition_extended(
                          id, effect, T500RS_EFFECT_FRICTION_2, fails, 0))
          [] effect.type = "FF_INERTIA" ->
                break(t500rs_upload_inertia(id, effect, fails, 0))
          [] effect.type = "FF_PERIODIC" ->
                break(t500rs_upload_periodic(id, effect.type, fails, 0))
          [] OTHER ->
                [r |-> [sent |-> <<>>, ret |-> -EINVAL], early |-> TRUE]

\* t500rs_upload_effect for the slot record st.
t500rs_upload_effect(id, st, fails) ==
    IF st.combined # <<>>
    THEN t500rs_upload_combined(id, st.combined, fails, 0)
    ELSE LET sw == UploadSwitch(id, st.effect, fails)
         IN  IF ~sw.early /\ st.effect.length # 0
             THEN Then(sw.r, t500rs_modify_duration(id, fails, Len(sw.r.sent)))
             ELSE sw.r

t500rs_play_effect(id, fails) ==
    SendAll(<<Cmd(id, "T500RS_CMD_PLAY",
                  <<T500RS_EFFECT_CONSTANT, 0, 0, 0, T500RS_CMD_PLAY, 0, 65, 1>>,
                  8)>>, fails, 0)

t500rs_stop_effect(id, fails) ==
    SendAll(<<Cmd(id, "T500RS_CMD_STOP",
                  <<T500RS_EFFECT_CONSTANT, 0, 0, 0, T500RS_CMD_PLAY, 0, 0, 1>>,
                  8)>>, fails, 0)

\* Which sends of a pipeline fail: any subset of the ordinals of the sends
\* it makes when none fails (a failure never adds a send).
FailSets(unfailed) == SUBSET (1 .. Len(unfailed.sent))

\* ------------------------------------------------------------------ state
\* Observer of the repeat cycles of a slot.  From the moment a slot is
\* playing with count = k > 0 it records k, the number n of expiries since
\* and whether QUEUE_START was pending at that moment (pend).  A call of
\* t500rs_play starts the observation afresh; so does the start block when
\* it consumes the QUEUE_START that was pending.
NoCycles == [k |-> 0, n |-> 0, pend |-> FALSE]

Observe(st) ==
    IF FF_EFFECT_PLAYING \in st.flags /\ st.count > 0
    THEN [k |-> st.count, n |-> 0, pend |-> FF_EFFECT_QUEUE_START \in st.flags]
    ELSE NoCycles

\* The device entry after a t500rs_init that returned 0: the firmware query
\* answered, entry points installed, timer initialised, range stored.
ReadyEntry ==
    [range |-> 1024, query |-> 0, firmware_version |-> 31,
     installed |-> TRUE, timer |-> TRUE]

\* A slot of the table after kzalloc.
EmptySlot ==
    [effect |-> ZeroEffect, old |-> ZeroEffect, combined |-> <<>>,
     flags |-> {}, start_time |-> 0, count |-> 0]

Init ==
    /\ states = [s \in Slots |-> EmptySlot]
    /\ hrtimer = "idle"
    /\ now = 0
    /\ pc = "idle"
    /\ effect_id = 0
    /\ jiffies_now = 0
    /\ max_count = 0
    /\ helper_ret = 0
    /\ sent = <<>>
    /\ retval = 0
    /\ rearmed = FALSE
    /\ calls = 0
    /\ cycles = [s \in Slots |-> NoCycles]
    /\ device = TRUE
    /\ word = {}
    /\ halted = {}
    /\ entry = ReadyEntry

\* The millisecond clock advances.
Advance ==
    /\ now < MaxTime
    /\ now' = now + 1
    /\ UNCHANGED <<halted, entry, device, word, states, hrtimer, pc, tick_locals, sent, retval, rearmed, calls,
                    cycles>>

\* ----------------------------------------------------------- entry points
\* hrtimer_active(): the timer is enqueued or its callback is executing.
hrtimer_active(h) == h # "idle"

\* Variant: hrtimer_start is called whether or not the timer is active.
PlayStartsTimer_Always(h) == TRUE

\* The condition under which t500rs_play calls hrtimer_start.
PlayStartsTimer(h) == ~hrtimer_active(h)

\* Variant: a positive value leaves a pending QUEUE_STOP in place.
PlayFlags_KeepStop(flags, value) ==
    IF value > 0
    THEN flags \cup {FF_EFFECT_QUEUE_START}
    ELSE flags \cup {FF_EFFECT_QUEUE_STOP}

\* Variant: a stop request also clears FF_EFFECT_PLAYING.
PlayFlags_StopClearsPlaying(flags, value) ==
    IF value > 0
    THEN (flags \cup {FF_EFFECT_QUEUE_START}) \ {FF_EFFECT_QUEUE_STOP}
    ELSE (flags \cup {FF_EFFECT_QUEUE_STOP}) \ {FF_EFFECT_PLAYING}

\* The flags word after t500rs_play's update for `value`.
PlayFlags(flags, value) ==
    IF value > 0
    THEN (flags \cup {FF_EFFECT_QUEUE_START}) \ {FF_EFFECT_QUEUE_STOP}
    ELSE flags \cup {FF_EFFECT_QUEUE_STOP}

\* The slot has been handed an effect by t500rs_upload.
InUse(id) == states[id].effect # ZeroEffect

\* The input core (ff-core) is the only caller.  It hands out the lowest
\* free id, passes as `old` either NULL or the effect it last stored under
\* the id (the one the driver holds) and only when the types agree, and
\* asks playback only of an id it has uploaded.
UploadCallable(id, effect, has_old) ==
    /\ \A j \in Slots : j < id => InUse(j)
    /\ has_old => states[id].effect.type = effect.type

PlayCallable(id) == InUse(id)

\* Variant: the period is not checked.
UploadRejects_Never(effect) == FALSE

\* The argument check of t500rs_upload.
UploadRejects(effect) == effect.type = "FF_PERIODIC" /\ effect.period = 0

t500rs_upload(id, effect, has_old) ==
    /\ calls < MaxCalls
    /\ calls' = calls + 1
    /\ UploadCallable(id, effect, has_old)
    /\ IF ~device
       THEN /\ retval' = -1
            /\ UNCHANGED states
       ELSE IF UploadRejects(effect)
       THEN /\ retval' = -EINVAL
            /\ UNCHANGED states
       ELSE /\ states' = [states EXCEPT ![id] =
                 [@ EXCEPT
                    !.effect = effect,
                    !.old = IF has_old THEN states[id].effect ELSE @,
                    !.flags = (IF has_old
                               THEN @ \cup {FF_EFFECT_QUEUE_UPDATE}
                               ELSE @ \ {FF_EFFECT_QUEUE_UPDATE})
                              \cup {FF_EFFECT_QUEUE_UPLOAD}]]
            /\ retval' = 0
    /\ UNCHANGED <<halted, entry, device, word, hrtimer, now, pc, tick_locals, sent, rearmed, cycles>>

t500rs_play(id, value) ==
    /\ calls < MaxCalls
    /\ calls' = calls + 1
    /\ PlayCallable(id)
    /\ IF ~device
       THEN /\ retval' = -1
            /\ UNCHANGED <<states, hrtimer, rearmed, cycles, halted>>
       ELSE /\ states' = [states EXCEPT ![id] =
                  [@ EXCEPT
                     !.count = IF value > 0 THEN value ELSE @,
                     !.start_time = IF value > 0 THEN now ELSE @,
                     !.flags = PlayFlags(@, value)]]
            /\ IF PlayStartsTimer(hrtimer)
               THEN /\ hrtimer' = "armed"
                    /\ rearmed' = (rearmed \/ hrtimer_active(hrtimer))
               ELSE UNCHANGED <<hrtimer, rearmed>>
            /\ retval' = 0
            /\ cycles' = [cycles EXCEPT ![id] = Observe(states'[id])]
            /\ halted' = IF value > 0 THEN halted \ {id} ELSE halted
    /\ UNCHANGED <<entry, device, word, now, pc, tick_locals, sent>>

Upload == \E id \in Slots, effect \in UploadInputs, has_old \in BOOLEAN :
              t500rs_upload(id, effect, has_old)

Play == \E id \in Slots, value \in PlayValues : t500rs_play(id, value)

\* ------------------------------------------------------- the timer pass
\* (jiffies_now - state->start_time) >= length in unsigned long arithmetic:
\* a start_time later than jiffies_now wraps to a huge difference.
Elapsed(jnow, st) ==
    IF jnow >= st.start_time
    THEN (jnow - st.start_time) >= st.effect.length
    ELSE TRUE

\* Variant: the expiry block does not test the length.
Expires_IgnoreLength(jnow, st) ==
    FF_EFFECT_PLAYING \in st.flags /\ Elapsed(jnow, st)

\* The condition of the expiry block at the head of the loop body.
Expires(jnow, st) ==
    FF_EFFECT_PLAYING \in st.flags /\ st.effect.length # 0 /\ Elapsed(jnow, st)

\* Variant: an expired slot is queued again even when no repeat is left.
ExpireSlot_AlwaysRestart(jnow, st) ==
    IF Expires(jnow, st)
    THEN [st EXCEPT
            !.count = IF @ # 0 THEN @ - 1 ELSE 0,
            !.flags = (@ \ {FF_EFFECT_PLAYING, FF_EFFECT_QUEUE_UPDATE})
                      \cup {FF_EFFECT_QUEUE_START}]
    ELSE st

\* Variant: the expiry does not use up a repeat.
ExpireSlot_KeepCount(jnow, st) ==
    IF Expires(jnow, st)
    THEN LET f == st.flags \ {FF_EFFECT_PLAYING, FF_EFFECT_QUEUE_UPDATE}
         IN  [st EXCEPT
                !.flags = IF st.count # 0 THEN f \cup {FF_EFFECT_QUEUE_START} ELSE f]
    ELSE st

\* The expiry block.
ExpireSlot(jnow, st) ==
    IF Expires(jnow, st)
    THEN LET c == IF st.count # 0 THEN st.count - 1 ELSE 0
             f == st.flags \ {FF_EFFECT_PLAYING, FF_EFFECT_QUEUE_UPDATE}
         IN  [st EXCEPT
                !.count = c,
                !.flags = IF c # 0 THEN f \cup {FF_EFFECT_QUEUE_START} ELSE f]
    ELSE st

\* Variant: the start block leaves QUEUE_START set for the next pass.
StartSlot_KeepQueued(st) ==
    [st EXCEPT !.flags = @ \cup {FF_EFFECT_PLAYING}]

\* The slot after the start block has consumed QUEUE_START.
StartSlot(st) ==
    [st EXCEPT !.flags = (@ \ {FF_EFFECT_QUEUE_START}) \cup {FF_EFFECT_PLAYING}]

\* Variant: the stop block leaves QUEUE_STOP set.
StopSlot_KeepQueued(st) ==
    [st EXCEPT !.flags = @ \ {FF_EFFECT_PLAYING}]

\* The slot after the stop block has consumed QUEUE_STOP.
StopSlot(st) ==
    [st EXCEPT !.flags = @ \ {FF_EFFECT_QUEUE_STOP, FF_EFFECT_PLAYING}]

\* What t500rs_timer returns for the helper's result.
TimerRestart(ret) == ret > 0

\* Variant: the stop block stands before the start block.
StageAfter_StopFirst(stage) ==
    CASE stage = "expire" -> "upload"
      [] stage = "upload" -> "stop"
      [] stage = "stop" -> "start"
      [] stage = "start" -> "count"

\* The order of the blocks of the loop body.
StageAfter(stage) ==
    CASE stage = "expire" -> "upload"
      [] stage = "upload" -> "start"
      [] stage = "start" -> "stop"
      [] stage = "stop" -> "count"

\* The callback starts: t500rs_timer calls t500rs_timer_helper.
TimerFire ==
    /\ hrtimer = "armed"
    /\ pc = "idle"
    /\ hrtimer' = "running"
    /\ pc' = "expire"
    /\ effect_id' = 0
    /\ jiffies_now' = now
    /\ max_count' = 0
    /\ sent' = <<>>
    /\ UNCHANGED <<halted, entry, device, word, states, now, helper_ret, retval, rearmed, calls, cycles>>

TickExpire ==
    /\ pc = "expire"
    /\ states' = [states EXCEPT ![effect_id] = ExpireSlot(jiffies_now, @)]
    /\ pc' = StageAfter("expire")
    /\ cycles' = [cycles EXCEPT ![effect_id] =
          IF Expires(jiffies_now, states[effect_id]) /\ @ # NoCycles
          THEN [@ EXCEPT !.n = @ + 1] ELSE @]
    /\ UNCHANGED <<halted, entry, device, word, hrtimer, now, tick_locals, sent, retval, rearmed, calls>>

\* Variant: the block runs its sends whether or not its flag is set.
Stage_Unconditional(bit, after, run, stage) ==
    /\ states' = [states EXCEPT ![effect_id] = after]
    /\ sent' = sent \o run.sent
    /\ IF run.ret # 0
       THEN pc' = "return" /\ helper_ret' = run.ret
       ELSE pc' = StageAfter(stage) /\ UNCHANGED helper_ret

\* One block of the loop body: when `bit` is set, apply `after` and run the
\* sends `run`; a nonzero result ends the pass with that result.
Stage(bit, after, run, stage) ==
    IF test_bit(bit, effect_id)
    THEN /\ states' = [states EXCEPT ![effect_id] = after]
         /\ sent' = sent \o run.sent
         /\ IF run.ret # 0
            THEN pc' = "return" /\ helper_ret' = run.ret
            ELSE pc' = StageAfter(stage) /\ UNCHANGED helper_ret
    ELSE /\ pc' = StageAfter(stage)
         /\ UNCHANGED <<states, sent, helper_ret>>

TickUpload ==
    /\ pc = "upload"
    /\ \E fails \in FailSets(t500rs_upload_effect(effect_id, states[effect_id], {})) :
          Stage(FF_EFFECT_QUEUE_UPLOAD,
                [states[effect_id] EXCEPT !.flags = @ \ {FF_EFFECT_QUEUE_UPLOAD}],
                t500rs_upload_effect(effect_id, states[effect_id], fails),
                "upload")
    /\ UNCHANGED <<halted, entry, device, word, hrtimer, now, effect_id, jiffies_now, max_count, retval, rearmed,
                    calls, cycles>>

TickStart ==
    /\ pc = "start"
    /\ \E fails \in FailSets(t500rs_play_effect(effect_id, {})) :
          Stage(FF_EFFECT_QUEUE_START,
                StartSlot(states[effect_id]),
                t500rs_play_effect(effect_id, fails),
                "start")
    /\ cycles' = [cycles EXCEPT ![effect_id] =
          IF test_bit(FF_EFFECT_QUEUE_START, effect_id) /\ (@ = NoCycles \/ @.pend)
          THEN Observe(states'[effect_id]) ELSE @]
    /\ UNCHANGED <<halted, entry, device, word, hrtimer, now, effect_id, jiffies_now, max_count, retval, rearmed,
                    calls>>

TickStop ==
    /\ pc = "stop"
    /\ \E fails \in FailSets(t500rs_stop_effect(effect_id, {})) :
          Stage(FF_EFFECT_QUEUE_STOP,
                StopSlot(states[effect_id]),
                t500rs_stop_effect(effect_id, fails),
                "stop")
    /\ halted' = IF test_bit(FF_EFFECT_QUEUE_STOP, effect_id)
                 THEN halted \cup {effect_id} ELSE halted
    /\ UNCHANGED <<entry, device, word, hrtimer, now, effect_id, jiffies_now, max_count, retval, rearmed,
                    calls, cycles>>

\* The tail of the loop body and the loop's exit.
TickCount ==
    /\ pc = "count"
    /\ LET m == IF states[effect_id].count > max_count
                THEN states[effect_id].count ELSE max_count
       IN  /\ max_count' = m
           /\ IF effect_id + 1 < NumSlots
              THEN /\ effect_id' = effect_id + 1
                   /\ pc' = "expire"
                   /\ UNCHANGED helper_ret
              ELSE /\ pc' = "return"
                   /\ helper_ret' = m
                   /\ UNCHANGED effect_id
    /\ sent' = <<>>
    /\ UNCHANGED <<halted, entry, device, word, states, hrtimer, now, jiffies_now, retval, rearmed, calls, cycles>>

\* t500rs_timer after the helper returned: restart or not.
TimerReturn ==
    /\ pc = "return"
    /\ hrtimer' = IF TimerRestart(helper_ret) THEN "armed" ELSE "idle"
    /\ pc' = "idle"
    /\ effect_id' = 0
    /\ jiffies_now' = 0
    /\ max_count' = 0
    /\ helper_ret' = 0
    /\ sent' = <<>>
    /\ UNCHANGED <<halted, entry, device, word, states, now, retval, rearmed, calls, cycles>>

Next ==
    \/ Advance
    \/ Upload
    \/ Play
    \/ TimerFire
    \/ TickExpire
    \/ TickUpload
    \/ TickStart
    \/ TickStop
    \/ TickCount
    \/ TimerReturn

Spec == Init /\ [][Next]_vars

\* ------------------------------------------- the pass at word granularity
\* t500rs_timer_helper takes no lock, and __clear_bit is a plain load,
\* mask and store of the flags word.  Here the upload block of the pass is
\* taken apart into the test with the load of the word and the store with
\* what follows it, so that an entry point on another processor can run in
\* between.
RaceUploadTest ==
    /\ pc = "upload"
    /\ IF test_bit(FF_EFFECT_QUEUE_UPLOAD, effect_id)
       THEN /\ word' = states[effect_id].flags
            /\ pc' = "upload_store"
       ELSE /\ pc' = StageAfter("upload")
            /\ UNCHANGED word
    /\ UNCHANGED <<halted, entry, device, states, hrtimer, now, tick_locals, sent, retval,
                    rearmed, calls, cycles>>

RaceUploadStore ==
    /\ pc = "upload_store"
    /\ \E fails \in FailSets(t500rs_upload_effect(effect_id, states[effect_id], {})) :
          LET run == t500rs_upload_effect(effect_id, states[effect_id], fails)
          IN  /\ states' = [states EXCEPT ![effect_id].flags =
                               word \ {FF_EFFECT_QUEUE_UPLOAD}]
              /\ sent' = sent \o run.sent
              /\ IF run.ret # 0
                 THEN pc' = "return" /\ helper_ret' = run.ret
                 ELSE pc' = StageAfter("upload") /\ UNCHANGED helper_ret
    /\ word' = {}
    /\ UNCHANGED <<halted, entry, device, hrtimer, now, effect_id, jiffies_now, max_count, retval,
                    rearmed, calls, cycles>>

RaceNext ==
    \/ Advance
    \/ Upload
    \/ Play
    \/ TimerFire
    \/ TickExpire
    \/ RaceUploadTest
    \/ RaceUploadStore
    \/ TickStart
    \/ TickStop
    \/ TickCount
    \/ TimerReturn

RaceSpec == Init /\ [][RaceNext]_vars


\* ------------------------------------------------------------ the encoder
\* The upload pipeline on its own: slot 0 holds a descriptor or a combined
\* record, and t500rs_upload_effect (or t500rs_upload_combined) is applied
\* to it once, with any of its sends failing.
Levels == {0, 64, 320, -1}

Waveforms == {"FF_SINE", "FF_SQUARE", "FF_TRIANGLE", "FF_SAW_UP", "FF_SAW_DOWN"}

EncEffects ==
    { [Effect("FF_CONSTANT", l, 0, a, 0) EXCEPT !.level = v] :
          l \in {0, 1}, a \in {0, 1}, v \in Levels }
    \cup { [Effect("FF_RAMP", l, 0, a, 0) EXCEPT !.start_level = v, !.end_level = 64] :
          l \in {0, 1}, a \in {0, 1}, v \in Levels }
    \cup { [Effect("FF_PERIODIC", l, 1, 0, 0) EXCEPT !.waveform = w] :
          l \in {0, 1}, w \in Waveforms }
    \cup { [Effect(t, l, 0, 0, 0) EXCEPT !.center = c, !.right_coeff = r] :
          t \in {"FF_SPRING", "FF_DAMPER", "FF_FRICTION", "FF_INERTIA"},
          l \in {0, 1}, c \in {0, 16384, -256}, r \in {0, 8192} }
    \cup { Effect("FF_RUMBLE", l, 0, 0, 0) : l \in {0, 1} }

\* Combined records: any constituent count from 0 to one past the maximum.
EncCombined ==
    { [num_effects |-> n, dynamic_weights |-> d, effect_ids |-> ids,
       weights |-> ws,
       min_weights |-> [i \in 0 .. (MaxCombined - 1) |-> 18],
       max_weights |-> [i \in 0 .. (MaxCombined - 1) |-> 52]] :
          n \in 0 .. (MaxCombined + 1), d \in BOOLEAN,
          ids \in [0 .. (MaxCombined - 1) -> {1, 2}],
          ws \in [0 .. (MaxCombined - 1) -> {16, 32}] }

EncInit ==
    /\ \/ \E e \in EncEffects :
             states = [s \in Slots |->
                          IF s = 0 THEN [EmptySlot EXCEPT !.effect = e]
                          ELSE EmptySlot]
       \/ \E c \in EncCombined :
             states = [s \in Slots |->
                          IF s = 0 THEN [EmptySlot EXCEPT !.combined = <<c>>]
                          ELSE EmptySlot]
    /\ hrtimer = "idle"
    /\ now = 0
    /\ pc = "idle"
    /\ effect_id = 0
    /\ jiffies_now = 0
    /\ max_count = 0
    /\ helper_ret = 0
    /\ sent = <<>>
    /\ retval = 0
    /\ rearmed = FALSE
    /\ calls = 0
    /\ cycles = [s \in Slots |-> NoCycles]
    /\ device = TRUE
    /\ word = {}
    /\ halted = {}
    /\ entry = ReadyEntry

\* One call of t500rs_upload_effect for slot 0.
UploadEffect ==
    /\ pc = "idle"
    /\ \E fails \in FailSets(t500rs_upload_effect(0, states[0], {})) :
          LET r == t500rs_upload_effect(0, states[0], fails)
          IN  sent' = r.sent /\ retval' = r.ret
    /\ pc' = "encoded"
    /\ UNCHANGED <<halted, entry, device, word, states, hrtimer, now, tick_locals, rearmed, calls, cycles>>

\* One call of t500rs_upload_combined for slot 0, with or without a record.
UploadCombined ==
    /\ pc = "idle"
    /\ \E fails \in FailSets(t500rs_upload_combined(0, states[0].combined, {}, 0)) :
          LET r == t500rs_upload_combined(0, states[0].combined, fails, 0)
          IN  sent' = r.sent /\ retval' = r.ret
    /\ pc' = "combined"
    /\ UNCHANGED <<halted, entry, device, word, states, hrtimer, now, tick_locals, rearmed, calls, cycles>>

EncNext == UploadEffect \/ UploadCombined

EncSpec == EncInit /\ [][EncNext]_vars


\* ---------------------------------------------------------- weight updates
\* t500rs_upload_weight called, any number of times, on a table whose slot 0
\* holds a combined record or a descriptor.
CallCombined ==
    { [num_effects |-> n, dynamic_weights |-> d,
       effect_ids |-> [i \in 0 .. (MaxCombined - 1) |-> i + 1],
       weights |-> [i \in 0 .. (MaxCombined - 1) |-> 32],
       min_weights |-> [i \in 0 .. (MaxCombined - 1) |-> 18 + 8 * i],
       max_weights |-> [i \in 0 .. (MaxCombined - 1) |-> 52 - 8 * i]] :
          n \in {1, 2}, d \in BOOLEAN }

WeightUpdates ==
    [effect_id : {1, 2, 3}, new_weight : {17, 18, 27, 44, 53},
     smooth_transition : BOOLEAN, transition_steps : {4}]

\* A combined record is attached to a slot.
AttachCombined(st, c) == [st EXCEPT !.combined = <<c>>]

\* Slot 0 with a combined record or with a descriptor, idle or playing.
CallSlots ==
    { [AttachCombined(EmptySlot, c) EXCEPT !.flags = f] :
          c \in CallCombined, f \in {{}, {FF_EFFECT_PLAYING}} }
    \cup { [EmptySlot EXCEPT !.effect = Effect("FF_CONSTANT", 1, 0, 0, 0),
                             !.flags = f] :
              f \in {{}, {FF_EFFECT_PLAYING}} }

CallInit ==
    /\ \E st \in CallSlots :
          states = [s \in Slots |-> IF s = 0 THEN st ELSE EmptySlot]
    /\ hrtimer \in {"idle", "armed"}
    /\ now = 0
    /\ pc = "idle"
    /\ effect_id = 0
    /\ jiffies_now = 0
    /\ max_count = 0
    /\ helper_ret = 0
    /\ sent = <<>>
    /\ retval = 0
    /\ rearmed = FALSE
    /\ calls = 0
    /\ cycles = [s \in Slots |-> NoCycles]
    /\ device \in BOOLEAN
    /\ word = {}
    /\ halted = {}
    /\ entry = ReadyEntry

\* One call of t500rs_upload_weight for slot 0.
UploadWeight ==
    /\ pc \in {"idle", "weight"}
    /\ \E update \in WeightUpdates :
          \E fails \in FailSets(t500rs_upload_weight(0, states[0], update, {})) :
             LET r == t500rs_upload_weight(0, states[0], update, fails)
             IN  /\ states' = [states EXCEPT ![0] = r.state]
                 /\ sent' = r.sent
                 /\ retval' = r.ret
    /\ pc' = "weight"
    /\ UNCHANGED <<halted, entry, device, word, hrtimer, now, tick_locals, rearmed, calls, cycles>>

WeightNext == UploadWeight

WeightSpec == CallInit /\ [][WeightNext]_vars

\* ------------------------------------------------------------ direct calls
\* The entry points and the upload pipeline called on the same tables, with
\* the device entry present or not.
CallNext == Upload \/ Play \/ UploadEffect

CallSpec == CallInit /\ [][CallNext]_vars

\* =================================================================== claims
Flag(bit, st) == bit \in st.flags

\* C1: a call of t500rs_play with a value <= 0 leaves the slot's
\* QUEUE_START flag clear, whatever was requested for the slot before.
C1_StopCancelsStart ==
    [][\A id \in Slots, value \in PlayValues :
          (value <= 0 /\ calls' # calls /\ t500rs_play(id, value))
              => ~Flag(FF_EFFECT_QUEUE_START, states'[id])]_vars

\* C2 as claimed: a slot found playing with count = k > 0 has, once k
\* expiries have passed without a call of t500rs_play for it, PLAYING and
\* QUEUE_START clear and count = 0, and never expires a (k+1)-th time.
C2_RepeatsRunOut_AnyStart ==
    \A s \in Slots :
        cycles[s].k > 0 =>
            /\ cycles[s].n <= cycles[s].k
            /\ cycles[s].n = cycles[s].k =>
                  /\ states[s].count = 0
                  /\ ~Flag(FF_EFFECT_PLAYING, states[s])
                  /\ ~Flag(FF_EFFECT_QUEUE_START, states[s])

\* C2 amended: the same for a slot found playing with count = k > 0 and no
\* QUEUE_START pending; each expiry in between takes exactly one repeat.
C2_RepeatsRunOut ==
    \A s \in Slots :
        (cycles[s].k > 0 /\ ~cycles[s].pend) =>
            /\ cycles[s].n <= cycles[s].k
            /\ states[s].count = cycles[s].k - cycles[s].n
            /\ cycles[s].n = cycles[s].k =>
                  /\ ~Flag(FF_EFFECT_PLAYING, states[s])
                  /\ ~Flag(FF_EFFECT_QUEUE_START, states[s])

\* A slot started with at least two repeats has used them all up.
C2_Witness ==
    \E s \in Slots :
        /\ cycles[s].k >= 2
        /\ ~cycles[s].pend
        /\ cycles[s].n = cycles[s].k
        /\ states[s].effect.length # 0

\* C3: the expiry block, run on a playing slot of nonzero length whose
\* length has elapsed since start_time, clears PLAYING, takes one from a
\* nonzero count, and sets QUEUE_START exactly when the count it leaves is
\* nonzero (otherwise it leaves the bit as it was).
C3_ExpiryStep ==
    [][(/\ TickExpire
        /\ Flag(FF_EFFECT_PLAYING, states[effect_id])
        /\ states[effect_id].effect.length # 0
        /\ jiffies_now >= states[effect_id].start_time
        /\ jiffies_now - states[effect_id].start_time
              >= states[effect_id].effect.length)
       => LET before == states[effect_id]
              after == states'[effect_id]
          IN  /\ ~Flag(FF_EFFECT_PLAYING, after)
              /\ after.count = IF before.count > 0 THEN before.count - 1 ELSE 0
              /\ after.count # 0 => Flag(FF_EFFECT_QUEUE_START, after)
              /\ after.count = 0 =>
                    (Flag(FF_EFFECT_QUEUE_START, after)
                        <=> Flag(FF_EFFECT_QUEUE_START, before))]_vars

\* The expiry block has just taken the first of two repeats and queued the
\* slot again.
C3_Witness ==
    /\ pc = "upload"
    /\ cycles[effect_id] = [k |-> 2, n |-> 1, pend |-> FALSE]
    /\ states[effect_id].count = 1
    /\ Flag(FF_EFFECT_QUEUE_START, states[effect_id])
    /\ ~Flag(FF_EFFECT_PLAYING, states[effect_id])

\* C4: when the start block consumes QUEUE_START it records the time the
\* pass read as the slot's start_time.
C4_StartRecordsTime ==
    [][(TickStart /\ Flag(FF_EFFECT_QUEUE_START, states[effect_id]))
          => states'[effect_id].start_time = jiffies_now]_vars

\* C5: the sends a pass makes for one slot are the upload commands first,
\* then at most one play command, then at most one stop command.
Rank(c) ==
    CASE c.cmd = "T500RS_CMD_PLAY" -> 2
      [] c.cmd = "T500RS_CMD_STOP" -> 3
      [] OTHER -> 1

C5_StageOrder ==
    /\ \A i \in DOMAIN sent : sent[i].id = effect_id
    /\ \A i, j \in DOMAIN sent :
          i < j => \/ Rank(sent[i]) < Rank(sent[j])
                   \/ Rank(sent[i]) = 1 /\ Rank(sent[j]) = 1

\* One visit of a slot has sent upload commands, the play command and the
\* stop command.
C5_Witness ==
    /\ \E i \in DOMAIN sent : Rank(sent[i]) = 1
    /\ \E i \in DOMAIN sent : Rank(sent[i]) = 2
    /\ \E i \in DOMAIN sent : Rank(sent[i]) = 3

\* C6: a pass re-arms the timer exactly when the largest count
\* it has read is positive.
C6_RearmIffMaxPositive ==
    [][TimerReturn => ((hrtimer' = "armed") <=> (max_count > 0))]_vars

\* C7: t500rs_play with value > 0 sets count to the value, start_time to
\* the clock, QUEUE_START, and clears QUEUE_STOP; with value <= 0 it sets
\* QUEUE_STOP and leaves count and start_time as they were.
C7_PlayEffect ==
    [][\A id \in Slots, value \in PlayValues :
          (calls' # calls /\ t500rs_play(id, value)) =>
             IF value > 0
             THEN /\ states'[id].count = value
                  /\ states'[id].start_time = now
                  /\ Flag(FF_EFFECT_QUEUE_START, states'[id])
                  /\ ~Flag(FF_EFFECT_QUEUE_STOP, states'[id])
             ELSE /\ Flag(FF_EFFECT_QUEUE_STOP, states'[id])
                  /\ states'[id].count = states[id].count
                  /\ states'[id].start_time = states[id].start_time]_vars

\* A start was requested after the clock had advanced.
C7_Witness ==
    \E s \in Slots :
        /\ Flag(FF_EFFECT_QUEUE_START, states[s])
        /\ states[s].count = MaxCount
        /\ states[s].start_time = now
        /\ now > 0

\* C8: when t500rs_play returns the timer is active, and hrtimer_start is
\* never called on a timer that is enqueued or running.
C8_IdempotentArm ==
    [][(calls' # calls /\ \E id \in Slots, value \in PlayValues : t500rs_play(id, value))
          => (hrtimer' # "idle" /\ ~rearmed')]_vars

\* A stop request arrived while the callback was running, after the pass
\* had gone through the stop block of that slot.
C8_Witness ==
    /\ hrtimer = "running"
    /\ pc = "count"
    /\ Flag(FF_EFFECT_QUEUE_STOP, states[effect_id])
    /\ ~rearmed

\* C9: t500rs_upload stores the descriptor, sets QUEUE_UPLOAD (and
\* QUEUE_UPDATE with a previous descriptor) and sends nothing; the upload
\* block of the pass that finds QUEUE_UPLOAD set transmits the descriptor
\* (unless a send fails).
C9_UploadDeferred ==
    [][/\ \A id \in Slots, effect \in UploadInputs, has_old \in BOOLEAN :
            (calls' # calls /\ retval' = 0 /\ t500rs_upload(id, effect, has_old)) =>
                /\ states'[id].effect = effect
                /\ Flag(FF_EFFECT_QUEUE_UPLOAD, states'[id])
                /\ has_old => Flag(FF_EFFECT_QUEUE_UPDATE, states'[id])
                /\ sent' = sent
       /\ (/\ TickUpload
           /\ Flag(FF_EFFECT_QUEUE_UPLOAD, states[effect_id])
           /\ \A i \in DOMAIN sent' : sent'[i].ok)
          => sent' # <<>>]_vars

\* C10: t500rs_upload of a periodic descriptor with period 0 returns
\* -EINVAL and leaves the whole state table as it was.
C10_ZeroPeriodRejected ==
    [][\A id \in Slots, effect \in UploadInputs, has_old \in BOOLEAN :
          (/\ effect.type = "FF_PERIODIC"
           /\ effect.period = 0
           /\ calls' # calls
           /\ t500rs_upload(id, effect, has_old))
          => (retval' = -EINVAL /\ states' = states)]_vars

\* A zero-period update was refused for a slot that holds an effect with
\* its upload still queued.
C10_Witness ==
    /\ retval = -EINVAL
    /\ \E s \in Slots :
          /\ states[s].effect.type = "FF_PERIODIC"
          /\ Flag(FF_EFFECT_QUEUE_UPLOAD, states[s])

\* C11: t500rs_upload of a descriptor whose type the driver has no case
\* for returns -EINVAL and leaves the state table as it was.
C11_UnknownTypeRejected ==
    [][\A id \in Slots, effect \in UploadInputs, has_old \in BOOLEAN :
          (/\ effect.type \notin SupportedTypes
           /\ calls' # calls
           /\ t500rs_upload(id, effect, has_old))
          => (retval' = -EINVAL /\ states' = states)]_vars

\* C12: when the upload block of a pass fails for a slot whose upload was
\* an update of an earlier effect, the slot holds the descriptor it held
\* before that upload was requested (the one kept in `old`), and its
\* PLAYING flag and count are untouched.
C12_FailedUploadKeepsOld ==
    [][(/\ pc = "upload"
        /\ pc' = "return"
        /\ Flag(FF_EFFECT_QUEUE_UPLOAD, states[effect_id])
        /\ Flag(FF_EFFECT_QUEUE_UPDATE, states[effect_id]))
       => /\ states'[effect_id].effect = states[effect_id].old
          /\ states'[effect_id].count = states[effect_id].count
          /\ Flag(FF_EFFECT_PLAYING, states'[effect_id])
                <=> Flag(FF_EFFECT_PLAYING, states[effect_id])]_vars

Pending(st) ==
    st.flags \cap {FF_EFFECT_QUEUE_UPLOAD, FF_EFFECT_QUEUE_START,
                   FF_EFFECT_QUEUE_STOP} # {}

\* C14: when a pass ends with a failure in one slot while another slot has
\* a transition queued, the timer is left armed, so that the other slot is
\* served by a later pass without a new call of an entry point.
C14_OtherSlotsServed ==
    [][(/\ TimerReturn
        /\ helper_ret < 0
        /\ \E s \in Slots \ {effect_id} : Pending(states[s]))
       => hrtimer' = "armed"]_vars


\* ------------------------------------------------------- encoder claims
\* The encoder has returned for the descriptor of slot 0.
Encoded == pc = "encoded" /\ states[0].combined = <<>>

AllSent == \A i \in DOMAIN sent : sent[i].ok

SimpleTypes ==
    {"FF_CONSTANT", "FF_RAMP", "FF_PERIODIC", "FF_SPRING", "FF_DAMPER", "FF_FRICTION"}

TypeCommand(type) ==
    CASE type = "FF_CONSTANT" -> "T500RS_CMD_SET_CONSTANT"
      [] type = "FF_RAMP" -> "T500RS_CMD_SET_RAMP"
      [] type = "FF_PERIODIC" -> "T500RS_CMD_SET_PERIODIC"
      [] OTHER -> "T500RS_CMD_SET_CONDITION"

\* C15: for every simple effect type (constant, ramp, periodic, spring,
\* damper, friction) the encoder emits the envelope buffer first, then the
\* type-specific parameter buffer, then the upload command.
C15_ThreeStageOrder ==
    (Encoded /\ AllSent /\ states[0].effect.type \in SimpleTypes)
        => /\ Len(sent) >= 3
           /\ sent[1].cmd = "T500RS_CMD_SET_ENVELOPE"
           /\ sent[2].cmd = TypeCommand(states[0].effect.type)
           /\ sent[3].cmd = "T500RS_CMD_UPLOAD_EFFECT"

\* A constant-force descriptor with no envelope and no duration, all of
\* whose sends went through.
PlainConstant ==
    /\ Encoded
    /\ AllSent
    /\ states[0].effect.type = "FF_CONSTANT"
    /\ states[0].effect.attack_length = 0
    /\ states[0].effect.fade_length = 0
    /\ states[0].effect.length = 0

\* The three buffers of a plain constant force, but for the level byte.
ConstantBuffers ==
    /\ Len(sent) = 3
    /\ retval = 0
    /\ sent[1].cmd = "T500RS_CMD_SET_ENVELOPE"
    /\ sent[1].size = 9
    /\ \A k \in 3 .. 9 : sent[1].params[k] = 0
    /\ sent[2].cmd = "T500RS_CMD_SET_CONSTANT"
    /\ sent[2].size = 4
    /\ sent[3].cmd = "T500RS_CMD_UPLOAD_EFFECT"
    /\ sent[3].params[3] = T500RS_EFFECT_CONSTANT

\* C16 as stated: a constant force with zero envelope and zero duration
\* emits exactly three buffers (zeroed envelope, constant level, upload with
\* the constant type code), and the level byte is the descriptor's level.
C16_LevelByteIsLevel ==
    PlainConstant
        => /\ ConstantBuffers
           /\ sent[2].params[4] = states[0].effect.level

\* C16: a constant force with zero envelope and zero duration emits exactly
\* three buffers (zeroed envelope, constant level, upload with the constant
\* type code); the level byte is the low eight bits of the descriptor's
\* level, hence the level itself when it lies in 0 .. 255.
C16_ConstantThreeBuffers ==
    PlainConstant
        => /\ ConstantBuffers
           /\ sent[2].params[4] \in 0 .. 255
           /\ (sent[2].params[4] - states[0].effect.level) % 256 = 0

C16_Witness ==
    /\ PlainConstant
    /\ states[0].effect.level = 64
    /\ Len(sent) = 3
    /\ sent[2].params[4] = 64

\* C17: a send failure aborts the remaining sends of the upload, the
\* duration command included, and is returned: no send is attempted after a
\* failed one and the value returned is the failure.
C17_FailureAborts ==
    pc = "encoded"
        => \A i \in DOMAIN sent :
              ~sent[i].ok => (i = Len(sent) /\ retval = -ENOMEM)

\* The wire code the type table gives an effect.
TableCode(effect) ==
    CASE effect.type = "FF_CONSTANT" -> T500RS_EFFECT_CONSTANT
      [] effect.type = "FF_RAMP" -> T500RS_EFFECT_RAMP
      [] effect.type = "FF_SPRING" -> T500RS_EFFECT_SPRING
      [] effect.type = "FF_DAMPER" -> T500RS_EFFECT_DAMPER_2
      [] effect.type = "FF_FRICTION" -> T500RS_EFFECT_FRICTION_2
      [] effect.type = "FF_INERTIA" -> T500RS_EFFECT_INERTIA
      [] effect.waveform = "FF_SINE" -> T500RS_EFFECT_SINE
      [] effect.waveform = "FF_SQUARE" -> T500RS_EFFECT_SQUARE
      [] effect.waveform = "FF_TRIANGLE" -> T500RS_EFFECT_TRIANGLE
      [] effect.waveform = "FF_SAW_UP" -> T500RS_EFFECT_SAWTOOTH_UP
      [] OTHER -> T500RS_EFFECT_SAWTOOTH_DOWN

\* C18: every supported effect type uploads successfully when no send
\* fails, and every upload command emitted for it carries the wire code of
\* the type table (a periodic effect the code of its waveform).
C18_TableCodes ==
    (Encoded /\ AllSent /\ states[0].effect.type \in SupportedTypes)
        => /\ retval = 0
           /\ \A i \in DOMAIN sent :
                 sent[i].cmd = "T500RS_CMD_UPLOAD_EFFECT"
                     => sent[i].params[3] = TableCode(states[0].effect)
           /\ states[0].effect.type = "FF_PERIODIC"
                 => \E i \in DOMAIN sent : sent[i].cmd = "T500RS_CMD_UPLOAD_EFFECT"

\* The duration sends among the sends of the upload.
DurationSends ==
    { i \in DOMAIN sent : sent[i].cmd = "T500RS_CMD_MODIFY_DURATION" }

\* C28: the duration command is sent if and only if the descriptor's length
\* is nonzero, and when sent it is the last send of the upload, made only
\* after every earlier send succeeded.
C28_DurationLast ==
    Encoded =>
       /\ \A i \in DurationSends :
             /\ i = Len(sent)
             /\ \A j \in 1 .. (i - 1) : sent[j].ok
             /\ states[0].effect.length # 0
       /\ (/\ states[0].effect.length # 0
           /\ states[0].effect.type \in SupportedTypes
           /\ \A j \in DOMAIN sent \ DurationSends : sent[j].ok)
             => DurationSends # {}

\* The condition fields of a descriptor.
ConditionFields(e) ==
    <<e.center, e.deadband, e.right_coeff, e.left_coeff,
      e.right_saturation, e.left_saturation>>

\* The parameters of the first command the encoder emits for a descriptor.
FirstPayload(e) == UploadSwitch(0, e, {}).r.sent[1].params

\* C29: the condition command of a spring is a function of the descriptor's
\* center, deadband, coefficients and saturation: a spring descriptor that
\* differs from the one encoded in any of these fields has another payload.
C29_SpringPayloadFromFields ==
    (Encoded /\ AllSent /\ states[0].effect.type = "FF_SPRING")
       => \A e \in EncEffects :
             (/\ e.type = "FF_SPRING"
              /\ ConditionFields(e) # ConditionFields(states[0].effect))
                => FirstPayload(e) # sent[1].params

\* C30: the command of an inertia descriptor carries right_coeff >> 8 as
\* strength, left_coeff >> 8 as damping and center >> 8 as resistance, each
\* as one byte.
C30_InertiaThreeBytes ==
    (Encoded /\ sent # <<>> /\ states[0].effect.type = "FF_INERTIA")
       => LET e == states[0].effect
              p == sent[1].params
          IN  /\ p[7] = Byte(e.right_coeff \div 256)
              /\ p[8] = Byte(e.left_coeff \div 256)
              /\ \E k \in 9 .. Len(p) : p[k] = Byte(e.center \div 256)

\* The combined encoder has returned for slot 0.
CombinedDone ==
    \/ pc = "combined"
    \/ pc = "encoded" /\ states[0].combined # <<>>

\* The record is present with 1 .. MaxCombined constituents.
CombinedAccepted ==
    /\ CombinedDone
    /\ states[0].combined # <<>>
    /\ states[0].combined[1].num_effects \in 1 .. MaxCombined

\* C19: the payload of a combined effect of n constituents is exactly
\* 8 + 2n bytes with dynamic weights disabled and 8 + 3n bytes with them
\* enabled; n = 0, n above the maximum and a missing record are rejected
\* with invalid-argument and nothing is sent.
C19_CombinedSize ==
    CombinedDone
        => IF CombinedAccepted
           THEN LET c == states[0].combined[1]
                IN  /\ Len(sent) = 1
                    /\ sent[1].size
                          = 8 + c.num_effects * (IF c.dynamic_weights THEN 3 ELSE 2)
                    /\ Len(sent[1].params) = sent[1].size
           ELSE sent = <<>> /\ retval = -EINVAL

C19_Witness ==
    /\ CombinedAccepted
    /\ states[0].combined[1].num_effects = MaxCombined
    /\ ~states[0].combined[1].dynamic_weights
    /\ retval = 0
    /\ Len(sent[1].params) = 8 + 2 * MaxCombined

\* C20: with dynamic weights disabled the payload holds the id of
\* constituent i at offset 8 + 2i and its weight at offset 9 + 2i.
C20_ConstituentOffsets ==
    (CombinedAccepted /\ ~states[0].combined[1].dynamic_weights)
        => LET c == states[0].combined[1]
           IN  \A i \in 0 .. (c.num_effects - 1) :
                  /\ sent[1].params[8 + 2 * i + 1] = c.effect_ids[i]
                  /\ sent[1].params[9 + 2 * i + 1] = c.weights[i]


\* ---------------------------------------------------- weight-update claims
\* The constituents of the record c that carry the id.
Constituents(c, id) == { i \in 0 .. (c.num_effects - 1) : c.effect_ids[i] = id }

\* The slot has a combined record with dynamic weights.
Dynamic(st) == st.combined # <<>> /\ st.combined[1].dynamic_weights

\* C21: a weight update whose constituent id is not in the slot's combined
\* record, whose new weight is below the minimum or above the maximum of
\* its constituent, or whose slot has no dynamic-weight combined record,
\* returns -EINVAL, sends nothing and leaves every stored weight unchanged:
\* whatever is sent is a valid update of a dynamic record, and every weight
\* an update writes lies within the bounds of its constituent.
C21_WeightValidated ==
    [][pc' = "weight" =>
          /\ (sent' = <<>>) = (retval' = -EINVAL)
          /\ sent' = <<>> => states' = states
          /\ sent' # <<>> =>
                /\ Dynamic(states[0])
                /\ \E i \in Constituents(states[0].combined[1], sent'[1].params[5]) :
                      /\ sent'[1].params[6] >= states[0].combined[1].min_weights[i]
                      /\ sent'[1].params[6] <= states[0].combined[1].max_weights[i]
          /\ Dynamic(states[0]) =>
                /\ Dynamic(states'[0])
                /\ \A i \in 0 .. (MaxCombined - 1) :
                      LET c == states[0].combined[1]
                          w == states'[0].combined[1].weights[i]
                      IN  w # c.weights[i] =>
                             /\ i < c.num_effects
                             /\ w >= c.min_weights[i]
                             /\ w <= c.max_weights[i]]_vars

C21_Witness ==
    /\ pc = "weight"
    /\ Dynamic(states[0])
    /\ states[0].combined[1].weights[0] = 18
    /\ retval = -EINVAL
    /\ sent = <<>>

\* C22: a weight update commits the new weight only after its send has
\* succeeded: when the send fails the record is as it was before the call.
C22_CommitAfterSend ==
    [][(pc' = "weight" /\ sent' # <<>> /\ ~sent'[1].ok)
          => states'[0].combined = states[0].combined]_vars

\* C23: a weight update never arms or re-arms the timer and leaves the
\* flags, the repeat count and the start time of every slot unchanged.
C23_WeightUpdateFrame ==
    [][pc' = "weight" =>
          /\ hrtimer' = hrtimer
          /\ rearmed' = rearmed
          /\ \A s \in Slots :
                /\ states'[s].flags = states[s].flags
                /\ states'[s].count = states[s].count
                /\ states'[s].start_time = states[s].start_time]_vars

C23_Witness ==
    /\ pc = "weight"
    /\ hrtimer = "idle"
    /\ FF_EFFECT_PLAYING \in states[0].flags
    /\ sent # <<>>
    /\ sent[1].ok
    /\ states[0].combined[1].weights[1] = 44


\* C27: a pass makes no send for a slot without outstanding work: a step of
\* the pass sends only when the slot it stands on has an upload, a start or
\* a stop queued, and the pass itself queues a transition only in the
\* expiry block, for a playing slot whose duration has elapsed and that has
\* repeats left.
C27_NoWorkNoTraffic ==
    [][(calls' = calls /\ pc' # pc) =>
          /\ Len(sent') > Len(sent) => Pending(states[effect_id])
          /\ \A s \in Slots :
                (Pending(states'[s]) /\ ~Pending(states[s])) =>
                   /\ s = effect_id
                   /\ pc = "expire"
                   /\ Expires(jiffies_now, states[s])
                   /\ states[s].count > 1]_vars

\* The pass has gone through the blocks of a playing slot that has nothing
\* queued and has not yet run its time, and has sent nothing.
C27_Witness ==
    /\ pc = "count"
    /\ hrtimer = "running"
    /\ sent = <<>>
    /\ ~Pending(states[effect_id])
    /\ Flag(FF_EFFECT_PLAYING, states[effect_id])
    /\ states[effect_id].effect.length # 0
    /\ states[effect_id].count > 0

\* C24: reads and writes of the state table are mutually exclusive: an
\* entry point does not change a slot between the test and the clear the
\* pass makes of one of its flags, and the clear takes away that flag only,
\* so that no flag an entry point wrote is lost.
C24_TableExclusive ==
    [][/\ (calls' # calls /\ states'[effect_id] # states[effect_id])
             => pc # "upload_store"
       /\ (pc = "upload_store" /\ pc' # pc)
             => states'[effect_id].flags
                   = states[effect_id].flags \ {FF_EFFECT_QUEUE_UPLOAD}]_vars


\* --------------------------------------------------- direct-call claims
\* C25: no slot carries both a non-empty descriptor and a combined record;
\* an upload of a descriptor into a slot leaves no combined record attached
\* to it.
C25_SlotExclusive ==
    \A s \in Slots : ~(states[s].effect # ZeroEffect /\ states[s].combined # <<>>)

\* C26: called while the device entry is missing, an entry point returns
\* -1 and a send whose allocation succeeded returns -1, which is not the
\* -ENOMEM a send returns when it fails for want of memory.
C26_NotReadyDistinct ==
    [][/\ (~device /\ calls' # calls) => (retval' = -1 /\ retval' # -ENOMEM)
       /\ (pc = "idle" /\ pc' = "encoded") =>
             \A i \in DOMAIN sent' :
                /\ ~sent'[i].alloc => sent'[i].ret = -ENOMEM
                /\ (sent'[i].alloc /\ ~device) =>
                      (sent'[i].ret = -1 /\ sent'[i].ret # -ENOMEM)
                /\ (sent'[i].alloc /\ device) => sent'[i].ret = 0]_vars

C26_Witness ==
    /\ ~device
    /\ calls > 0
    /\ pc = "encoded"
    /\ sent # <<>>
    /\ sent[Len(sent)].alloc
    /\ retval = -1

\* ---- The range attribute ----

\* Texts written to the range attribute, one number per character: 0..9 are
\* the digits, OtherChar any other character.  Every number written here is
\* below 2^31, so kstrtouint's overflow answer does not arise.
OtherChar == 10

RangeBufs ==
    { <<0>>, <<3, 9>>, <<4, 0>>, <<4, 1>>, <<0, 4, 0>>, <<0, 5, 0>>,
      <<5, 4, 0>>, <<1, 0, 2, 4>>, <<1, 0, 8, 0>>, <<1, 0, 8, 1>>,
      <<1, 0, 9, 2>>, <<6, 5, 5, 3, 5>>, <<1, 0, 0, 0, 0, 0, 0>>,
      <<1, 0, 0>>, <<2, 7, 0>>, <<3, 6, 0>>, <<7, 2, 0>>, <<9, 0, 0>>,
      <<0, 1, 7, 7, 7>>, <<OtherChar>>, <<0, 9>>, <<>> }

RECURSIVE ParseDigits(_, _, _)
ParseDigits(s, base, acc) ==
    IF s = <<>> THEN acc
    ELSE ParseDigits(Tail(s), base, acc * base + Head(s))

\* kstrtouint(buf, 0, &range): base 0 reads a leading 0 as octal; a text
\* that is empty or holds a character that is no digit of the base is
\* refused with -EINVAL.
kstrtouint(buf) ==
    LET base == IF Len(buf) > 1 /\ buf[1] = 0 THEN 8 ELSE 10
    IN  IF buf = <<>> \/ \E i \in 1 .. Len(buf) : buf[i] >= base
        THEN [ret |-> -EINVAL, value |-> 0]
        ELSE [ret |-> 0, value |-> ParseDigits(buf, base, 0)]

\* Variant: range_store without the upper clamp.
RangeClamp_NoUpper(range) ==
    IF range < 40 THEN 40 ELSE range

\* The two clamps of range_store.
RangeClamp(range) ==
    LET low == IF range < 40 THEN 40 ELSE range
    IN  IF low > 1080 THEN 1080 ELSE low

\* range_store(dev, attr, buf, count) on the entry e: found tells whether
\* its own lookup finds the device entry, found_send whether the lookup of
\* t500rs_send_int does.  The product of a clamped range and 0x3c is at most
\* 64800, so unsigned int arithmetic does not wrap; send_buffer is an array
\* of u8, so each store keeps the low eight bits.
range_store(e, buf, found, found_send) ==
    LET parsed == kstrtouint(buf)
        range  == RangeClamp(parsed.value) * 60
        ret    == SendResult(TRUE, found_send)
        cmd    == [id |-> 0, cmd |-> "range", size |-> 4, ok |-> ret = 0,
                   alloc |-> TRUE, ret |-> ret,
                   params |-> <<Byte(8), Byte(17), Byte(range % 256),
                                Byte(range \div 256)>>]
    IN  IF parsed.ret # 0 THEN [entry |-> e, sent |-> <<>>, ret |-> parsed.ret]
        ELSE IF ~found THEN [entry |-> e, sent |-> <<>>, ret |-> -1]
        ELSE IF ret # 0 THEN [entry |-> e, sent |-> <<cmd>>, ret |-> -1]
        ELSE [entry |-> [e EXCEPT !.range = range \div 60],
              sent  |-> <<cmd>>,
              ret   |-> Len(buf)]

\* The device entry of the range specification: any range an earlier store
\* can have left.
RangeInit ==
    /\ states = [s \in Slots |-> EmptySlot]
    /\ hrtimer = "idle"
    /\ now = 0
    /\ pc = "idle"
    /\ effect_id = 0
    /\ jiffies_now = 0
    /\ max_count = 0
    /\ helper_ret = 0
    /\ sent = <<>>
    /\ retval = 0
    /\ rearmed = FALSE
    /\ calls = 0
    /\ cycles = [s \in Slots |-> NoCycles]
    /\ device \in BOOLEAN
    /\ word = {}
    /\ halted = {}
    /\ entry \in {[ReadyEntry EXCEPT !.range = r] : r \in {40, 900, 1024, 1080}}

\* A write to the range attribute; gone: the device entry disappears between
\* the handler's lookup and the lookup of t500rs_send_int.
RangeStore(buf, gone) ==
    /\ pc \in {"idle", "range"}
    /\ LET r == range_store(entry, buf, device, device /\ ~gone)
       IN  /\ entry' = r.entry
           /\ sent' = r.sent
           /\ retval' = r.ret
    /\ pc' = "range"
    /\ UNCHANGED <<states, hrtimer, now, tick_locals, rearmed, calls, cycles,
                   device, word, halted>>

RangeNext ==
    \E buf \in RangeBufs, gone \in BOOLEAN : RangeStore(buf, gone)

RangeSpec == RangeInit /\ [][RangeNext]_vars

\* C31: a range_store that parsed its text and found the device sends one
\* command whose bytes 2 and 3 are the low and high byte of c * 0x3c, c being
\* the requested range clamped into [40, 1080] and c * 0x3c below 2^16; the
\* recorded range is c after a successful send and unchanged after a failed
\* one.
C31_RangeClamped ==
    [][\A buf \in RangeBufs, gone \in BOOLEAN :
          (/\ RangeStore(buf, gone)
           /\ kstrtouint(buf).ret = 0
           /\ device) =>
             /\ Len(sent') = 1
             /\ LET p == sent'[1].params
                    v == kstrtouint(buf).value
                    product == p[3] + 256 * p[4]
                    c == product \div 60
                IN  /\ p[3] \in 0 .. 255 /\ p[4] \in 0 .. 255
                    /\ product = c * 60
                    /\ c * 60 < 65536
                    /\ c \in 40 .. 1080
                    /\ (v \in 40 .. 1080 => c = v)
                    /\ (v < 40 => c = 40)
                    /\ (v > 1080 => c = 1080)
                    /\ IF sent'[1].ok
                       THEN entry'.range = c
                       ELSE entry'.range = entry.range]_vars

\* A store of a text of five or more digits has recorded 1080.
C31_Witness ==
    /\ pc = "range"
    /\ sent # <<>>
    /\ sent[1].ok
    /\ retval > 4
    /\ entry.range = 1080
    /\ sent[1].params = <<8, 17, 32, 253>>

\* ---- Device initialisation ----

\* Oldest firmware version t500rs_init accepts.
MinFirmware == 31

\* The device entry after kzalloc.
ZeroEntry ==
    [range |-> 0, query |-> 0, firmware_version |-> 0,
     installed |-> FALSE, timer |-> FALSE]

\* The step of t500rs_init that fails, if any.
InitFailures ==
    {"none", "drv_data", "t500rs", "states", "send_buffer",
     "firmware_response", "input_ff_create", "t500rs_create_files"}

\* Results of usb_control_msg: a negative error or the bytes transferred.
QueryResults == {-1, 0, 8}

\* Versions a device reports.
FirmwareVersions == {0, 30, 31, 32}

\* The test `firmware_version < 31 && ret >= 0'.
FirmwareRejected(query, version) ==
    version < MinFirmware /\ query >= 0

\* t500rs_init: query is the result of the firmware request and version the
\* version a successful request stores in the zeroed response buffer; fail
\* names the allocation or registration that fails.  The gain command sent
\* last is not modelled.
t500rs_init(query, version, fail) ==
    LET answered == [ZeroEntry EXCEPT
                        !.query = query,
                        !.firmware_version = IF query >= 0 THEN version ELSE 0]
        ff       == [answered EXCEPT !.installed = TRUE]
        ready    == [ff EXCEPT !.timer = TRUE]
        stored   == range_store(ready, <<1, 0, 2, 4>>, TRUE, TRUE)
    IN  /\ pc = "probe"
        /\ IF fail \in {"drv_data", "t500rs", "states", "send_buffer",
                        "firmware_response"}
           THEN /\ entry' = ZeroEntry
                /\ retval' = -ENOMEM
                /\ sent' = <<>>
           ELSE IF FirmwareRejected(answered.query, answered.firmware_version)
           THEN /\ entry' = answered
                /\ retval' = -EINVAL
                /\ sent' = <<>>
           ELSE IF fail = "input_ff_create"
           THEN /\ entry' = answered
                /\ retval' = -ENOMEM
                /\ sent' = <<>>
           ELSE IF fail = "t500rs_create_files"
           THEN /\ entry' = ff
                /\ retval' = -ENOMEM
                /\ sent' = <<>>
           ELSE /\ entry' = stored.entry
                /\ retval' = 0
                /\ sent' = stored.sent
        /\ device' = (retval' = 0)
        /\ pc' = IF retval' = 0 THEN "idle" ELSE "failed"
        /\ UNCHANGED <<states, hrtimer, now, tick_locals, rearmed, calls,
                       cycles, word, halted>>

\* Before t500rs_init: no device entry.
ProbeInit ==
    /\ states = [s \in Slots |-> EmptySlot]
    /\ hrtimer = "idle"
    /\ now = 0
    /\ pc = "probe"
    /\ effect_id = 0
    /\ jiffies_now = 0
    /\ max_count = 0
    /\ helper_ret = 0
    /\ sent = <<>>
    /\ retval = 0
    /\ rearmed = FALSE
    /\ calls = 0
    /\ cycles = [s \in Slots |-> NoCycles]
    /\ device = FALSE
    /\ word = {}
    /\ halted = {}
    /\ entry = ZeroEntry

InitDevice ==
    \E query \in QueryResults, version \in FirmwareVersions,
       fail \in InitFailures : t500rs_init(query, version, fail)

\* Initialisation, then writes to the range attribute it created.
ProbeNext == InitDevice \/ RangeNext

ProbeSpec == ProbeInit /\ [][ProbeNext]_vars

\* C32: the entry points are installed and the timer initialised only if the
\* firmware query succeeded and reported a version of at least 31; after a
\* failed query or an older version initialisation has failed.
C32_FirmwareGate ==
    pc # "probe" =>
        /\ (entry.installed \/ entry.timer) =>
               entry.query >= 0 /\ entry.firmware_version >= MinFirmware
        /\ (entry.query < 0 \/ entry.firmware_version < MinFirmware) =>
               retval < 0 /\ pc = "failed"

\* ------------------------------------------------ interleaving claims
\* A slot has a start or a stop queued.
PlaybackQueued(st) ==
    st.flags \cap {FF_EFFECT_QUEUE_START, FF_EFFECT_QUEUE_STOP} # {}

\* C33: no playback request is lost: when a pass without a send failure
\* returns while a slot has QUEUE_START or QUEUE_STOP set (a t500rs_play
\* that ran during the pass, after the pass had scanned the slot), the timer
\* is re-armed, so that a later pass consumes the flag without a further
\* call of an entry point.
C33_NoLostRequest ==
    [][(/\ TimerReturn
        /\ helper_ret >= 0
        /\ \E s \in Slots : PlaybackQueued(states[s]))
       => hrtimer' = "armed"]_vars

\* The scheduler under fair scheduling: an armed timer fires and a callback
\* that has started runs to its end.
TickStep ==
    TickExpire \/ TickUpload \/ TickStart \/ TickStop \/ TickCount \/ TimerReturn

FairSpec == Spec /\ WF_vars(TimerFire) /\ WF_vars(TickStep)

\* No slot is playing and no slot has an upload, a start or a stop queued.
WorkEnded ==
    \A s \in Slots :
        /\ ~Flag(FF_EFFECT_PLAYING, states[s])
        /\ ~Pending(states[s])

\* C34: once the work has ended for good (every started slot was stopped or
\* ran out of repeats, no flag is queued, no entry point sets one again), the
\* timer eventually stays idle.
C34_EventuallyDormant ==
    <>[]WorkEnded => <>[](hrtimer = "idle")

\* C35: when a pass returns, a slot has PLAYING set only if the play command
\* last sent for it succeeded: a pass that ends in the failed send of the
\* play command of a slot does not leave that slot PLAYING.
C35_FailedPlayNotPlaying ==
    (/\ pc = "return"
     /\ sent # <<>>
     /\ sent[Len(sent)].cmd = "T500RS_CMD_PLAY"
     /\ sent[Len(sent)].id = effect_id
     /\ sent[Len(sent)].ret # 0)
    => ~Flag(FF_EFFECT_PLAYING, states[effect_id])

\* The scheduler from the state that t500rs_upload on slot 0, a t500rs_play
\* with value 0 and the pass serving them leave: slot 0 holds an uploaded
\* descriptor, its stop has been consumed, the timer is idle.
StoppedInit ==
    /\ \E effect \in {e \in UploadInputs : e.type = "FF_CONSTANT"} :
          states = [s \in Slots |->
                       IF s = 0 THEN [EmptySlot EXCEPT !.effect = effect]
                       ELSE EmptySlot]
    /\ hrtimer = "idle"
    /\ now = 0
    /\ pc = "idle"
    /\ effect_id = 0
    /\ jiffies_now = 0
    /\ max_count = 0
    /\ helper_ret = 0
    /\ sent = <<>>
    /\ retval = 0
    /\ rearmed = FALSE
    /\ calls = 0
    /\ cycles = [s \in Slots |-> NoCycles]
    /\ device = TRUE
    /\ word = {}
    /\ halted = {0}
    /\ entry = ReadyEntry

StoppedSpec == StoppedInit /\ [][Next]_vars

\* C36: once the pass has consumed the stop request of a slot, and until a
\* t500rs_play with a positive value for that slot, no step of the pass
\* sends a play command for the slot or sets its PLAYING or QUEUE_START flag,
\* whatever its count.
C36_NoPlayAfterStop ==
    [][\A s \in Slots :
          (calls' = calls /\ s \in halted /\ s \in halted') =>
             /\ ~(/\ Len(sent') > Len(sent)
                  /\ sent'[Len(sent')].cmd = "T500RS_CMD_PLAY"
                  /\ sent'[Len(sent')].id = s)
             /\ Flag(FF_EFFECT_PLAYING, states'[s]) =>
                    Flag(FF_EFFECT_PLAYING, states[s])
             /\ Flag(FF_EFFECT_QUEUE_START, states'[s]) =>
                    Flag(FF_EFFECT_QUEUE_START, states[s])]_vars

\* The scheduler without concurrency: the entry points are called only
\* between passes.
SeqCall == pc = "idle" /\ (Upload \/ Play)

SeqNext ==
    \/ Advance
    \/ SeqCall
    \/ TimerFire
    \/ TickStep

SeqSpec == Init /\ [][SeqNext]_vars

\* C37: a pass that reaches its end without a send failure and without an
\* entry point called while it ran leaves no slot with QUEUE_UPLOAD,
\* QUEUE_START or QUEUE_STOP set; this includes the QUEUE_START the expiry
\* block of the pass has raised for a repeat.
C37_PassLeavesNothingQueued ==
    (pc = "return" /\ helper_ret >= 0) =>
        \A s \in Slots : ~Pending(states[s])

\* A pass has ended in which slot 0 expired with a repeat left and was
\* started again.
C37_Witness ==
    /\ pc = "return"
    /\ helper_ret > 0
    /\ cycles[0].k = 2
    /\ cycles[0].n = 1
    /\ Flag(FF_EFFECT_PLAYING, states[0])
    /\ ~Pending(states[0])

\* The flags of st among `bits`.
FlagsAmong(st, bits) == st.flags \cap bits

\* C38: t500rs_upload on slot id changes nothing but that slot's descriptor,
\* previous descriptor, QUEUE_UPLOAD and QUEUE_UPDATE; t500rs_play on slot id
\* changes nothing but that slot's count, start_time, QUEUE_START and
\* QUEUE_STOP and the armed state of the timer; neither changes a field of
\* another slot.
C38_EntryPointFrames ==
    [][/\ \A id \in Slots, effect \in UploadInputs, has_old \in BOOLEAN :
             (calls' # calls /\ t500rs_upload(id, effect, has_old)) =>
                /\ \A j \in Slots \ {id} : states'[j] = states[j]
                /\ states'[id].count = states[id].count
                /\ states'[id].start_time = states[id].start_time
                /\ states'[id].combined = states[id].combined
                /\ FlagsAmong(states'[id], {FF_EFFECT_PLAYING,
                                            FF_EFFECT_QUEUE_START,
                                            FF_EFFECT_QUEUE_STOP})
                   = FlagsAmong(states[id], {FF_EFFECT_PLAYING,
                                             FF_EFFECT_QUEUE_START,
                                             FF_EFFECT_QUEUE_STOP})
                /\ hrtimer' = hrtimer
       /\ \A id \in Slots, value \in PlayValues :
             (calls' # calls /\ t500rs_play(id, value)) =>
                /\ \A j \in Slots \ {id} : states'[j] = states[j]
                /\ states'[id].effect = states[id].effect
                /\ states'[id].old = states[id].old
                /\ states'[id].combined = states[id].combined
                /\ FlagsAmong(states'[id], {FF_EFFECT_PLAYING,
                                            FF_EFFECT_QUEUE_UPLOAD,
                                            FF_EFFECT_QUEUE_UPDATE})
                   = FlagsAmong(states[id], {FF_EFFECT_PLAYING,
                                             FF_EFFECT_QUEUE_UPLOAD,
                                             FF_EFFECT_QUEUE_UPDATE})]_vars

\* Between two passes a stop has been requested for slot 0 while it plays:
\* the call has set QUEUE_STOP and left PLAYING and the count alone.
C38_Witness ==
    /\ calls = 3
    /\ pc = "idle"
    /\ hrtimer = "armed"
    /\ retval = 0
    /\ Flag(FF_EFFECT_PLAYING, states[0])
    /\ Flag(FF_EFFECT_QUEUE_STOP, states[0])
    /\ states[0].count > 0

\* C39: a playing slot whose descriptor has length 0 does not expire: no
\* step of the pass decrements its count or raises its QUEUE_START, and the
\* only step of the pass that clears its PLAYING flag is the stop block
\* consuming its QUEUE_STOP.
C39_ZeroLengthNeverExpires ==
    [][(calls' = calls /\ pc # "idle") =>
          \A s \in Slots :
             (/\ Flag(FF_EFFECT_PLAYING, states[s])
              /\ states[s].effect.length = 0) =>
                /\ states'[s].count = states[s].count
                /\ Flag(FF_EFFECT_QUEUE_START, states'[s]) =>
                       Flag(FF_EFFECT_QUEUE_START, states[s])
                /\ \/ Flag(FF_EFFECT_PLAYING, states'[s])
                   \/ /\ pc = "stop"
                      /\ effect_id = s
                      /\ Flag(FF_EFFECT_QUEUE_STOP, states[s])
                      /\ ~Flag(FF_EFFECT_QUEUE_STOP, states'[s])]_vars

\* The expiry block has passed a playing slot of length 0 with a repeat
\* left, started before the pass's reading of the clock.
C39_Witness ==
    /\ pc = "upload"
    /\ Flag(FF_EFFECT_PLAYING, states[effect_id])
    /\ states[effect_id].effect.length = 0
    /\ states[effect_id].count > 0
    /\ jiffies_now > states[effect_id].start_time

\* ------------------------------------------------ the command buffer
\* Length of the report buffer.
T500RS_BUFFER_LENGTH == 64

\* T500RS_CMD_HEADER_SIZE is defined in no source file: any size a header
\* inside the report buffer can have.
HeaderSizes == 0 .. T500RS_BUFFER_LENGTH

\* Bytes t500rs_send_effect allocates for the command c with a header of
\* `header` bytes.
AllocatedBytes(c, header) == header + c.size

\* Bytes t500rs_send_int reads from (and then zeroes in) the buffer it is
\* handed: the loop runs to T500RS_BUFFER_LENGTH whatever the command.
CopiedBytes(c) == T500RS_BUFFER_LENGTH

\* C40: every command the encoder hands to the transport fits the report
\* buffer, header and payload together, and the transport copies no more
\* bytes out of the command's buffer than its header and payload hold.
C40_CommandFitsBuffer ==
    \E header \in HeaderSizes :
        \A i \in DOMAIN sent :
            sent[i].ret = 0 =>
                /\ AllocatedBytes(sent[i], header) <= T500RS_BUFFER_LENGTH
                /\ CopiedBytes(sent[i]) <= AllocatedBytes(sent[i], header)

====
